---- MODULE Spec2Model ----
(***************************************************************************)
(* near-evm-runner: the EvmContext state binding over the host trie and    *)
(* the run_evm dispatcher (runtime/near-evm-runner/src/lib.rs).            *)
(*                                                                         *)
(* Byte buffers are sequences of numbers 0..255.  The trie is a function   *)
(* from TrieKey::ContractData keys to the stored byte values.              *)
(***************************************************************************)
EXTENDS Integers, Sequences, FiniteSets, TLC

VARIABLES trie, last, ncalls, probe, frame, ledger

vars == <<trie, last, ncalls, probe, frame, ledger>>

(***************************************************************************)
(* Bounds and program constants                                            *)
(***************************************************************************)
\* number of dispatched calls explored in one behaviour
MaxCalls == 2
\* number of direct set_account / get_account uses explored in one behaviour
MaxOps == 3

\* H160 / Address is 20 bytes (args[..20], Address::from_slice)
ADDRESS_LEN == 20
\* a U256 is 32 bytes
U256_LEN == 32
\* Balance is u128: 16 bytes on the wire
BALANCE_LEN == 16
\* GetStorageAtArgs: 20-byte address and 32-byte key
STORAGE_ARGS_LEN == 52

(***************************************************************************)
(* Bytes                                                                   *)
(***************************************************************************)
Zeros(n) == [i \in 1..n |-> 0]

\* the byte of n that has weight 256^k; the numbers of the model are below
\* 256^4, so the bytes of weight 256^4 and above are zero
ByteAt(n, k) == IF k >= 4 THEN 0 ELSE (n \div (256 ^ k)) % 256

ToBigEndian(n, len) == [i \in 1..len |-> ByteAt(n, len - i)]

RECURSIVE FromBigEndianUpTo(_, _)
FromBigEndianUpTo(b, i) ==
    IF i = 0 THEN 0 ELSE FromBigEndianUpTo(b, i - 1) * 256 + b[i]

FromBigEndian(b) == FromBigEndianUpTo(b, Len(b))

ToLittleEndian(n, len) == [i \in 1..len |-> ByteAt(n, i - 1)]

RECURSIVE FromLittleEndianFrom(_, _)
FromLittleEndianFrom(b, i) ==
    IF i > Len(b) THEN 0 ELSE b[i] + 256 * FromLittleEndianFrom(b, i + 1)

FromLittleEndian(b) == FromLittleEndianFrom(b, 1)

(***************************************************************************)
(* Results: Result<T, EvmError>, or a panic that unwinds out of the call   *)
(***************************************************************************)
Ok(v) == [tag |-> "Ok", val |-> v, err |-> ""]
Err(e) == [tag |-> "Err", val |-> <<>>, err |-> e]
Panic == [tag |-> "Panic", val |-> <<>>, err |-> ""]

NoValue == [some |-> FALSE, amount |-> 0]
SomeValue(amount) == [some |-> TRUE, amount |-> amount]

\* the arguments of an interpreter invocation; NoInterp when none was made
NoInterp ==
    [op |-> "none", sender |-> <<>>, origin |-> <<>>, value |-> NoValue,
     depth |-> 0, scheme |-> "", target |-> <<>>, input |-> <<>>]

\* what an operation hands back: the trie it leaves, its result, and the
\* arguments it passed to the interpreter
Out(t, r) == [trie |-> t, res |-> r, interp |-> NoInterp]

(***************************************************************************)
(* Account ids and addresses                                               *)
(***************************************************************************)
AccountIds == {"alice", "bob"}

ZeroAddress == Zeros(ADDRESS_LEN)

\* utils::near_account_id_to_evm_address: a fixed derivation, the same
\* address for the same account id
near_account_id_to_evm_address(id) ==
    IF id = "alice" THEN [i \in 1..ADDRESS_LEN |-> IF i = ADDRESS_LEN THEN 161 ELSE 0]
    ELSE IF id = "bob" THEN [i \in 1..ADDRESS_LEN |-> IF i = ADDRESS_LEN THEN 178 ELSE 0]
    ELSE [i \in 1..ADDRESS_LEN |-> 255]

Addresses == {ZeroAddress} \cup {near_account_id_to_evm_address(id) : id \in AccountIds}

(***************************************************************************)
(* EvmAccount and its serialization                                        *)
(***************************************************************************)
EvmAccount(balance, nonce) == [balance |-> balance, nonce |-> nonce]

\* EvmAccount::default()
DefaultAccount == EvmAccount(0, 0)

\* account.try_to_vec(): the two 256-bit fields, 32 bytes each
try_to_vec(account) ==
    ToBigEndian(account.balance, U256_LEN) \o ToBigEndian(account.nonce, U256_LEN)

\* EvmAccount::try_from_slice(&value): fails unless exactly both fields are there
try_from_slice(value) ==
    IF Len(value) # 2 * U256_LEN
    THEN [ok |-> FALSE, account |-> DefaultAccount]
    ELSE [ok |-> TRUE,
          account |-> EvmAccount(FromBigEndian(SubSeq(value, 1, U256_LEN)),
                                 FromBigEndian(SubSeq(value, U256_LEN + 1, 2 * U256_LEN)))]

(***************************************************************************)
(* TrieUpdate                                                              *)
(***************************************************************************)
\* TrieKey::ContractData { account_id, key }
ContractData(account_id, key) == [account_id |-> account_id, key |-> key]

EmptyTrie == [k \in {} |-> <<>>]

\* TrieUpdate::set
TrieSet(t, k, v) == [x \in DOMAIN t \cup {k} |-> IF x = k THEN v ELSE t[x]]

\* TrieUpdate::get: Result<Option<Vec<u8>>, StorageError>
TrieGet(t, k) ==
    IF k \in DOMAIN t
    THEN [ok |-> TRUE, some |-> TRUE, value |-> t[k]]
    ELSE [ok |-> TRUE, some |-> FALSE, value |-> <<>>]

(***************************************************************************)
(* impl EvmState for EvmContext                                            *)
(***************************************************************************)
\* an EvmContext: the identity of one invocation
EvmContext_new(account_id, predecessor_id, attached_deposit) ==
    [account_id |-> account_id,
     predecessor_id |-> predecessor_id,
     attached_deposit |-> attached_deposit]

\* variant: the record is filed under the caller's id
set_account_by_predecessor(t, ctx, address, account) ==
    TrieSet(t, ContractData(ctx.predecessor_id, address), try_to_vec(account))

set_account(t, ctx, address, account) ==
    TrieSet(t, ContractData(ctx.account_id, address), try_to_vec(account))

\* TrieUpdate::get returning Err(StorageError)
StorageError == [ok |-> FALSE, some |-> FALSE, value |-> <<>>]

\* variant: bytes that do not parse are decoded as far as they go
get_account_of_lenient(read) ==
    LET opt == IF read.ok THEN read ELSE [ok |-> TRUE, some |-> FALSE, value |-> <<>>]
        parsed == try_from_slice(opt.value)
    IN  IF ~opt.some THEN DefaultAccount
        ELSE IF parsed.ok THEN parsed.account
        ELSE EvmAccount(FromBigEndian(opt.value), 0)

get_account_of(read) ==
    LET opt == IF read.ok THEN read ELSE [ok |-> TRUE, some |-> FALSE, value |-> <<>>]
        parsed == try_from_slice(opt.value)
    IN  IF ~opt.some THEN DefaultAccount
        ELSE IF parsed.ok THEN parsed.account
        ELSE DefaultAccount

\* variant: the record is looked up under the caller's id
get_account_by_predecessor(t, ctx, address) ==
    get_account_of(TrieGet(t, ContractData(ctx.predecessor_id, address)))

get_account(t, ctx, address) ==
    get_account_of(TrieGet(t, ContractData(ctx.account_id, address)))

\* EvmState::balance_of, add_balance, sub_balance, next_nonce: the derived
\* operations, written in terms of get_account / set_account
balance_of(t, ctx, address) == get_account(t, ctx, address).balance

add_balance(t, ctx, address, incr) ==
    LET account == get_account(t, ctx, address)
    IN  set_account(t, ctx, address, EvmAccount(account.balance + incr, account.nonce))

sub_balance(t, ctx, address, decr) ==
    LET account == get_account(t, ctx, address)
    IN  set_account(t, ctx, address, EvmAccount(account.balance - decr, account.nonce))

increment_nonce(t, ctx, address) ==
    LET account == get_account(t, ctx, address)
    IN  set_account(t, ctx, address, EvmAccount(account.balance, account.nonce + 1))

(***************************************************************************)
(* The interpreter: interpreter::deploy_code and interpreter::call          *)
(***************************************************************************)
\* how one interpreter run ends: it returns a value, it returns an execution
\* failure, or it unwinds (the state stubs it calls are unimplemented!())
InterpOutcomes == {"ok", "fail", "abort"}

\* the address of a contract created by sender with the given nonce
evm_contract_address(sender, nonce) ==
    [i \in 1..ADDRESS_LEN |-> IF i = 1 THEN (nonce + 1) % 256 ELSE sender[i]]

\* contract creation: takes the sender's next nonce and returns the address
interpreter_deploy_code(t, ctx, sender, io) ==
    IF io = "ok"
    THEN [trie |-> increment_nonce(t, ctx, sender),
          res |-> Ok(evm_contract_address(sender, get_account(t, ctx, sender).nonce))]
    ELSE IF io = "fail"
    THEN [trie |-> t, res |-> Err("EvmExecutionError")]
    ELSE [trie |-> t, res |-> Panic]

\* message call: returns the return data
interpreter_call(t, ctx, sender, io) ==
    IF io = "ok" THEN [trie |-> t, res |-> Ok(<<>>)]
    ELSE IF io = "fail" THEN [trie |-> t, res |-> Err("EvmExecutionError")]
    ELSE [trie |-> t, res |-> Panic]

(***************************************************************************)
(* impl EvmContext: the seven operations                                   *)
(***************************************************************************)
\* EvmState::code_at is unimplemented!()
code_at(t, ctx, address) == Panic

\* EvmState::commit_changes and EvmState::recreate are unimplemented!()
commit_changes(t, other) == [trie |-> t, res |-> Panic]

recreate(t, ctx, address) == [trie |-> t, res |-> Panic]

\* EvmState::_read_contract_storage is unimplemented!()
read_contract_storage(t, ctx, address, key) == Panic

deploy_code(t, ctx, bytecode, io) ==
    LET sender == near_account_id_to_evm_address(ctx.predecessor_id)
        run == interpreter_deploy_code(t, ctx, sender, io)
    IN  [trie |-> run.trie,
         res |-> run.res,
         interp |-> [op |-> "deploy_code", sender |-> sender, origin |-> sender,
                     value |-> SomeValue(ctx.attached_deposit), depth |-> 0,
                     scheme |-> "FromSenderAndNonce", target |-> <<>>,
                     input |-> bytecode]]

\* variant: the attached deposit is passed as the value even when it is 0
call_function_some_value(t, ctx, args, io) ==
    IF Len(args) < ADDRESS_LEN
    THEN Out(t, Panic)
    ELSE LET contract_address == SubSeq(args, 1, ADDRESS_LEN)
             input == SubSeq(args, ADDRESS_LEN + 1, Len(args))
             sender == near_account_id_to_evm_address(ctx.predecessor_id)
             run == interpreter_call(t, ctx, sender, io)
         IN  [trie |-> run.trie,
              res |-> run.res,
              interp |-> [op |-> "call", sender |-> sender, origin |-> sender,
                          value |-> SomeValue(ctx.attached_deposit), depth |-> 0,
                          scheme |-> "", target |-> contract_address,
                          input |-> input]]

call_function(t, ctx, args, io) ==
    IF Len(args) < ADDRESS_LEN
    THEN Out(t, Panic)
    ELSE LET contract_address == SubSeq(args, 1, ADDRESS_LEN)
             input == SubSeq(args, ADDRESS_LEN + 1, Len(args))
             sender == near_account_id_to_evm_address(ctx.predecessor_id)
             value == IF ctx.attached_deposit = 0 THEN NoValue
                      ELSE SomeValue(ctx.attached_deposit)
             run == interpreter_call(t, ctx, sender, io)
         IN  [trie |-> run.trie,
              res |-> run.res,
              interp |-> [op |-> "call", sender |-> sender, origin |-> sender,
                          value |-> value, depth |-> 0, scheme |-> "",
                          target |-> contract_address, input |-> input]]

get_code(t, ctx, args) ==
    IF Len(args) # ADDRESS_LEN
    THEN Out(t, Err("ArgumentParseError"))
    ELSE LET code == code_at(t, ctx, args)
         IN  IF code.tag = "Panic" THEN Out(t, Panic)
             ELSE IF code.tag = "Ok" THEN Out(t, Ok(code.val))
             ELSE Out(t, Ok(<<>>))

\* variant: a buffer longer than the two fields is accepted
get_storage_at_prefix(t, ctx, args) ==
    IF Len(args) < STORAGE_ARGS_LEN
    THEN Out(t, Err("ArgumentParseError"))
    ELSE LET slot == read_contract_storage(t, ctx, SubSeq(args, 1, ADDRESS_LEN),
                                           SubSeq(args, ADDRESS_LEN + 1, Len(args)))
         IN  IF slot.tag = "Panic" THEN Out(t, Panic)
             ELSE IF slot.tag = "Ok" THEN Out(t, Ok(slot.val))
             ELSE Out(t, Ok(Zeros(U256_LEN)))

get_storage_at(t, ctx, args) ==
    IF Len(args) # STORAGE_ARGS_LEN
    THEN Out(t, Err("ArgumentParseError"))
    ELSE LET slot == read_contract_storage(t, ctx, SubSeq(args, 1, ADDRESS_LEN),
                                           SubSeq(args, ADDRESS_LEN + 1, Len(args)))
         IN  IF slot.tag = "Panic" THEN Out(t, Panic)
             ELSE IF slot.tag = "Ok" THEN Out(t, Ok(slot.val))
             ELSE Out(t, Ok(Zeros(U256_LEN)))

\* variant: the record that was read is stored back (get-or-create)
get_balance_or_create(t, ctx, args) ==
    IF Len(args) # ADDRESS_LEN
    THEN Out(t, Panic)
    ELSE Out(set_account(t, ctx, args, get_account(t, ctx, args)),
             Ok(balance_of(t, ctx, args)))

get_balance(t, ctx, args) ==
    IF Len(args) # ADDRESS_LEN
    THEN Out(t, Panic)
    ELSE Out(t, Ok(balance_of(t, ctx, args)))

\* variant: the balance returned is the one read before the credit
deposit_near_stale(t, ctx, args) ==
    IF ctx.attached_deposit = 0
    THEN Out(t, Err("MissingDeposit"))
    ELSE IF Len(args) # ADDRESS_LEN
    THEN Out(t, Panic)
    ELSE Out(add_balance(t, ctx, args, ctx.attached_deposit),
             Ok(balance_of(t, ctx, args)))

\* variant: the record is written back with a fresh nonce
deposit_near_fresh_nonce(t, ctx, args) ==
    IF ctx.attached_deposit = 0
    THEN Out(t, Err("MissingDeposit"))
    ELSE IF Len(args) # ADDRESS_LEN
    THEN Out(t, Panic)
    ELSE LET balance == balance_of(t, ctx, args) + ctx.attached_deposit
         IN  Out(set_account(t, ctx, args, EvmAccount(balance, 0)), Ok(balance))

\* variant: the attached deposit is not checked
deposit_near_unchecked(t, ctx, args) ==
    IF Len(args) # ADDRESS_LEN
    THEN Out(t, Panic)
    ELSE LET t1 == add_balance(t, ctx, args, ctx.attached_deposit)
         IN  Out(t1, Ok(balance_of(t1, ctx, args)))

deposit_near(t, ctx, args) ==
    IF ctx.attached_deposit = 0
    THEN Out(t, Err("MissingDeposit"))
    ELSE IF Len(args) # ADDRESS_LEN
    THEN Out(t, Panic)
    ELSE LET t1 == add_balance(t, ctx, args, ctx.attached_deposit)
         IN  Out(t1, Ok(balance_of(t1, ctx, args)))

\* variant: the balance is not checked before the debit
withdraw_near_unchecked(t, ctx, args) ==
    IF Len(args) # BALANCE_LEN
    THEN Out(t, Err("ArgumentParseError"))
    ELSE LET sender == near_account_id_to_evm_address(ctx.predecessor_id)
         IN  Out(sub_balance(t, ctx, sender, FromLittleEndian(args)), Ok(<<>>))

\* variant: the amount is checked but not taken from the balance
withdraw_near_no_debit(t, ctx, args) ==
    IF Len(args) # BALANCE_LEN
    THEN Out(t, Err("ArgumentParseError"))
    ELSE LET sender == near_account_id_to_evm_address(ctx.predecessor_id)
             amount == FromLittleEndian(args)
         IN  IF amount > balance_of(t, ctx, sender)
             THEN Out(t, Err("InsufficientFunds"))
             ELSE Out(t, Ok(<<>>))

\* variant: the comparison is >= instead of >
withdraw_near_strict(t, ctx, args) ==
    IF Len(args) # BALANCE_LEN
    THEN Out(t, Err("ArgumentParseError"))
    ELSE LET sender == near_account_id_to_evm_address(ctx.predecessor_id)
             amount == FromLittleEndian(args)
         IN  IF amount >= balance_of(t, ctx, sender)
             THEN Out(t, Err("InsufficientFunds"))
             ELSE Out(sub_balance(t, ctx, sender, amount), Ok(<<>>))

\* variant: the debit is taken from the address named by the host account id
withdraw_near_from_account(t, ctx, args) ==
    IF Len(args) # BALANCE_LEN
    THEN Out(t, Err("ArgumentParseError"))
    ELSE LET sender == near_account_id_to_evm_address(ctx.account_id)
             amount == FromLittleEndian(args)
         IN  IF amount > balance_of(t, ctx, sender)
             THEN Out(t, Err("InsufficientFunds"))
             ELSE Out(sub_balance(t, ctx, sender, amount), Ok(<<>>))

withdraw_near(t, ctx, args) ==
    IF Len(args) # BALANCE_LEN
    THEN Out(t, Err("ArgumentParseError"))
    ELSE LET sender == near_account_id_to_evm_address(ctx.predecessor_id)
             amount == FromLittleEndian(args)
         IN  IF amount > balance_of(t, ctx, sender)
             THEN Out(t, Err("InsufficientFunds"))
             ELSE Out(sub_balance(t, ctx, sender, amount), Ok(<<>>))

(***************************************************************************)
(* run_evm                                                                 *)
(***************************************************************************)
\* utils::u256_to_vec and utils::address_to_vec
u256_to_vec(n) == ToBigEndian(n, U256_LEN)
address_to_vec(a) == a

\* Result::map with each arm's closure
MapAddress(out) ==
    [out EXCEPT !.res = IF out.res.tag = "Ok" THEN Ok(address_to_vec(out.res.val))
                        ELSE out.res]

MapU256(out) ==
    [out EXCEPT !.res = IF out.res.tag = "Ok" THEN Ok(u256_to_vec(out.res.val))
                        ELSE out.res]

MapUnit(out) ==
    [out EXCEPT !.res = IF out.res.tag = "Ok" THEN Ok(<<>>) ELSE out.res]

\* the match on method_name.as_str()
dispatch(t, ctx, method_name, args, io) ==
    CASE method_name = "deploy_code" -> MapAddress(deploy_code(t, ctx, args, io))
      [] method_name = "get_code" -> get_code(t, ctx, args)
      [] method_name = "call_function" -> call_function(t, ctx, args, io)
      [] method_name = "get_storage_at" -> get_storage_at(t, ctx, args)
      [] method_name = "get_balance" -> MapU256(get_balance(t, ctx, args))
      [] method_name = "deposit_near" -> MapU256(deposit_near(t, ctx, args))
      [] method_name = "withdraw_near" -> MapUnit(withdraw_near(t, ctx, args))
      [] OTHER -> Out(t, Err("UnknownError"))

\* Option<VMOutcome>, Option<VMError>
NoOutcome == [some |-> FALSE, data |-> <<>>]
NoError == [some |-> FALSE, kind |-> ""]

run_evm(t, account_id, predecessor_id, attached_deposit, method_name, args, io) ==
    LET context == EvmContext_new(account_id, predecessor_id, attached_deposit)
        out == dispatch(t, context, method_name, args, io)
    IN  [trie |-> out.trie,
         result |-> out.res,
         interp |-> out.interp,
         returned |-> out.res.tag # "Panic",
         outcome |-> NoOutcome,
         error |-> NoError]

(***************************************************************************)
(* Inputs                                                                  *)
(***************************************************************************)
RegisteredMethods ==
    {"deploy_code", "get_code", "call_function", "get_storage_at",
     "get_balance", "deposit_near", "withdraw_near"}

UnregisteredMethods == {"transfer", ""}

Deposits == {0, 100}

Amounts == {0, 60, 100, 150}

ArgBuffers ==
    {<<>>, Zeros(ADDRESS_LEN - 1), Zeros(ADDRESS_LEN + 1),
     Zeros(STORAGE_ARGS_LEN - 1), Zeros(STORAGE_ARGS_LEN), Zeros(STORAGE_ARGS_LEN + 1)}
    \cup Addresses
    \cup {near_account_id_to_evm_address("alice") \o <<7, 9>>}
    \cup {ToLittleEndian(a, BALANCE_LEN) : a \in Amounts}

(***************************************************************************)
(* State machine: a host that dispatches calls against one trie             *)
(***************************************************************************)
NoCall ==
    [account_id |-> "", predecessor_id |-> "", attached_deposit |-> 0,
     method_name |-> "none", args |-> <<>>, pre |-> EmptyTrie,
     result |-> Ok(<<>>), interp |-> NoInterp, returned |-> TRUE,
     outcome |-> NoOutcome, error |-> NoError]

\* the record of direct uses of the account store: the latest set_account
\* (its key, its record, whether it replaced another record) and the latest
\* get_account (its key, what it returned)
Idle ==
    [op |-> "none",
     set_id |-> "", set_address |-> <<>>, set_record |-> DefaultAccount,
     overwrote |-> FALSE,
     get_id |-> "", get_address |-> <<>>, got |-> DefaultAccount,
     read |-> TrieGet(EmptyTrie, ContractData("", <<>>))]

\* a nested frame: the parent's trie when the frame began and the StateStore
\* that takes the child's writes
NoFrame == [status |-> "none", base |-> EmptyTrie, writes |-> EmptyTrie]

\* per host account id, the attached deposits of the deposit_near calls that
\* succeeded and the amounts of the withdraw_near calls that succeeded
NoLedger ==
    [deposited |-> [id \in AccountIds |-> 0], withdrawn |-> [id \in AccountIds |-> 0]]

\* a call of run_evm has been made and its result not yet taken
InCall == last.method_name # "none"

Init ==
    /\ trie = EmptyTrie
    /\ last = NoCall
    /\ ncalls = 0
    /\ probe = Idle
    /\ frame = NoFrame
    /\ ledger = NoLedger

\* one call of run_evm by the host runtime, which is not inside another call
Call(account_id, predecessor_id, attached_deposit, method_name, args, io) ==
    /\ ncalls < MaxCalls
    /\ ~InCall
    /\ LET r == run_evm(trie, account_id, predecessor_id, attached_deposit,
                        method_name, args, io)
       IN  /\ trie' = r.trie
           /\ last' = [account_id |-> account_id, predecessor_id |-> predecessor_id,
                       attached_deposit |-> attached_deposit,
                       method_name |-> method_name, args |-> args, pre |-> trie,
                       result |-> r.result, interp |-> r.interp,
                       returned |-> r.returned,
                       outcome |-> r.outcome, error |-> r.error]
           /\ ledger' =
                IF method_name = "deposit_near" /\ r.result.tag = "Ok"
                THEN [ledger EXCEPT !.deposited[account_id] = @ + attached_deposit]
                ELSE IF method_name = "withdraw_near" /\ r.result.tag = "Ok"
                THEN [ledger EXCEPT !.withdrawn[account_id] = @ + FromLittleEndian(args)]
                ELSE ledger
    /\ ncalls' = ncalls + 1
    /\ UNCHANGED <<probe, frame>>

CallDirect(method_name) ==
    \E account_id \in AccountIds, predecessor_id \in AccountIds,
       attached_deposit \in Deposits, args \in ArgBuffers :
        Call(account_id, predecessor_id, attached_deposit, method_name, args, "ok")

CallInterpreted(method_name) ==
    \E account_id \in AccountIds, predecessor_id \in AccountIds,
       attached_deposit \in Deposits, args \in ArgBuffers, io \in InterpOutcomes :
        Call(account_id, predecessor_id, attached_deposit, method_name, args, io)

DeployCode == CallInterpreted("deploy_code")
GetCode == CallDirect("get_code")
CallFunction == CallInterpreted("call_function")
GetStorageAt == CallDirect("get_storage_at")
GetBalance == CallDirect("get_balance")
DepositNear == CallDirect("deposit_near")
WithdrawNear == CallDirect("withdraw_near")
Unregistered == \E method_name \in UnregisteredMethods : CallDirect(method_name)

\* the host runtime takes the returned pair; a call that unwound returns nothing
Return ==
    /\ InCall
    /\ last.returned
    /\ last' = NoCall
    /\ UNCHANGED <<trie, ncalls, probe, frame, ledger>>

Next ==
    \/ DeployCode
    \/ GetCode
    \/ CallFunction
    \/ GetStorageAt
    \/ GetBalance
    \/ DepositNear
    \/ WithdrawNear
    \/ Unregistered
    \/ Return

Spec == Init /\ [][Next]_vars

(***************************************************************************)
(* State machine: a client of the EvmState trait (the interpreter's view)  *)
(* that stores and loads account records directly                          *)
(***************************************************************************)
Balances == {0, 256, 100000}
Nonces == {0, 1}
ProbedAddresses == {ZeroAddress, near_account_id_to_evm_address("alice")}

SetAccount ==
    /\ ncalls < MaxOps
    /\ \E account_id \in AccountIds, predecessor_id \in AccountIds,
          address \in ProbedAddresses, balance \in Balances, nonce \in Nonces :
          LET ctx == EvmContext_new(account_id, predecessor_id, 0)
              k == ContractData(account_id, address)
              record == EvmAccount(balance, nonce)
          IN  /\ trie' = set_account(trie, ctx, address, record)
              /\ probe' = [probe EXCEPT !.op = "set_account",
                                        !.set_id = account_id,
                                        !.set_address = address,
                                        !.set_record = record,
                                        !.overwrote = (k \in DOMAIN trie
                                                       /\ trie[k] # try_to_vec(record))]
    /\ ncalls' = ncalls + 1
    /\ UNCHANGED <<last, frame, ledger>>

GetAccount ==
    /\ ncalls < MaxOps
    /\ \E account_id \in AccountIds, predecessor_id \in AccountIds,
          address \in ProbedAddresses :
          LET ctx == EvmContext_new(account_id, predecessor_id, 0)
          IN  probe' = [probe EXCEPT !.op = "get_account",
                                    !.get_id = account_id,
                                    !.get_address = address,
                                    !.got = get_account(trie, ctx, address)]
    /\ ncalls' = ncalls + 1
    /\ UNCHANGED <<trie, last, frame, ledger>>

NextAccount ==
    \/ SetAccount
    \/ GetAccount

SpecAccount == Init /\ [][NextAccount]_vars

(***************************************************************************)
(* State machine: get_account over a trie whose values need not be account *)
(* records (the host account's own ContractData) and whose reads can fail  *)
(***************************************************************************)
StoredValues ==
    {<<>>, <<7>>, Zeros(2 * U256_LEN - 1), Zeros(2 * U256_LEN + 1),
     try_to_vec(EvmAccount(256, 1))}

\* some writer of the trie stores bytes under a ContractData key
StoreBytes ==
    /\ ncalls < MaxOps
    /\ \E account_id \in AccountIds, address \in ProbedAddresses,
          value \in StoredValues :
          trie' = TrieSet(trie, ContractData(account_id, address), value)
    /\ ncalls' = ncalls + 1
    /\ UNCHANGED <<last, probe, frame, ledger>>

\* get_account, with the trie read either answering or failing
ReadAccount ==
    /\ ncalls < MaxOps
    /\ \E account_id \in AccountIds, address \in ProbedAddresses,
          fails \in BOOLEAN :
          LET ctx == EvmContext_new(account_id, account_id, 0)
              k == ContractData(account_id, address)
          IN  probe' = [probe EXCEPT
                          !.op = "read_account",
                          !.get_id = account_id,
                          !.get_address = address,
                          !.read = IF fails THEN StorageError ELSE TrieGet(trie, k),
                          !.got = IF fails THEN get_account_of(StorageError)
                                  ELSE get_account(trie, ctx, address)]
    /\ ncalls' = ncalls + 1
    /\ UNCHANGED <<trie, last, frame, ledger>>

NextRead ==
    \/ StoreBytes
    \/ ReadAccount

SpecRead == Init /\ [][NextRead]_vars

(***************************************************************************)
(* State machine: a parent context and one nested frame                    *)
(***************************************************************************)
\* the parent writes an account record while no child frame is running
ParentWrite ==
    /\ frame.status # "open"
    /\ frame.status # "aborted"
    /\ SetAccount

\* a nested call begins: the child gets an empty StateStore
BeginFrame ==
    /\ ncalls < MaxOps
    /\ frame.status \in {"none", "committed", "discarded"}
    /\ frame' = [status |-> "open", base |-> trie, writes |-> EmptyTrie]
    /\ ncalls' = ncalls + 1
    /\ UNCHANGED <<trie, last, probe, ledger>>

\* the child stores an account record: StateStore's set_account
ChildWrite ==
    /\ ncalls < MaxOps
    /\ frame.status = "open"
    /\ \E account_id \in AccountIds, address \in ProbedAddresses,
          balance \in Balances, nonce \in Nonces :
          frame' = [frame EXCEPT !.writes =
                       TrieSet(@, ContractData(account_id, address),
                               try_to_vec(EvmAccount(balance, nonce)))]
    /\ ncalls' = ncalls + 1
    /\ UNCHANGED <<trie, last, probe, ledger>>

\* the child succeeded: the parent's commit_changes is called with its store
CommitChanges ==
    /\ ncalls < MaxOps
    /\ frame.status = "open"
    /\ LET r == commit_changes(trie, frame.writes)
       IN  /\ trie' = r.trie
           /\ frame' = [frame EXCEPT !.status = IF r.res.tag = "Panic" THEN "aborted"
                                                ELSE "committed"]
    /\ ncalls' = ncalls + 1
    /\ UNCHANGED <<last, probe, ledger>>

\* the child failed: its store is dropped
DiscardFrame ==
    /\ ncalls < MaxOps
    /\ frame.status = "open"
    /\ frame' = [frame EXCEPT !.status = "discarded"]
    /\ ncalls' = ncalls + 1
    /\ UNCHANGED <<trie, last, probe, ledger>>

NextFrames ==
    \/ ParentWrite
    \/ BeginFrame
    \/ ChildWrite
    \/ CommitChanges
    \/ DiscardFrame

SpecFrames == Init /\ [][NextFrames]_vars

(***************************************************************************)
(* Properties                                                              *)
(***************************************************************************)
\* the context of the call recorded in last
LastCtx == EvmContext_new(last.account_id, last.predecessor_id, last.attached_deposit)

Called(method_name) == InCall /\ last.method_name = method_name

\* the sender address of the call recorded in last
LastSender == near_account_id_to_evm_address(last.predecessor_id)

\* the amount a withdraw_near buffer carries
LastAmount == FromLittleEndian(last.args)

IsAddress(args) == Len(args) = ADDRESS_LEN
IsAmount(args) == Len(args) = BALANCE_LEN

\* C1: deposit_near(addr) with attached deposit D > 0 on prior balance B
\* succeeds, leaves the stored balance of addr at B + D and returns B + D.
C1_DepositCredits ==
    (Called("deposit_near") /\ last.attached_deposit > 0 /\ IsAddress(last.args))
    => LET B == balance_of(last.pre, LastCtx, last.args)
           D == last.attached_deposit
       IN  /\ last.result = Ok(u256_to_vec(B + D))
           /\ FromBigEndian(last.result.val) = B + D
           /\ balance_of(trie, LastCtx, last.args) = B + D

\* a deposit onto an address that already held a positive balance
C1_Witness ==
    /\ Called("deposit_near")
    /\ last.attached_deposit = 100
    /\ IsAddress(last.args)
    /\ balance_of(last.pre, LastCtx, last.args) = 100
    /\ balance_of(trie, LastCtx, last.args) = 200
    /\ last.result.tag = "Ok"

\* C2: deposit_near with attached deposit 0 returns MissingDeposit, whatever
\* the argument buffer, and leaves every key of the trie as it was.
C2_ZeroDepositRejected ==
    (Called("deposit_near") /\ last.attached_deposit = 0)
    => /\ last.result = Err("MissingDeposit")
       /\ trie = last.pre

\* a rejected deposit onto an address that has a stored record
C2_Witness ==
    /\ Called("deposit_near")
    /\ last.attached_deposit = 0
    /\ IsAddress(last.args)
    /\ ContractData(last.account_id, last.args) \in DOMAIN last.pre
    /\ last.result.tag = "Err"

\* C3: withdraw_near(amount) with amount greater than the sender's balance
\* returns InsufficientFunds and leaves the trie as it was.
C3_OverdraftRejected ==
    (Called("withdraw_near") /\ IsAmount(last.args)
        /\ LastAmount > balance_of(last.pre, LastCtx, LastSender))
    => /\ last.result = Err("InsufficientFunds")
       /\ trie = last.pre
       /\ get_account(trie, LastCtx, LastSender) = get_account(last.pre, LastCtx, LastSender)

\* an overdraft attempted by a sender that holds a positive balance
C3_Witness ==
    /\ Called("withdraw_near")
    /\ IsAmount(last.args)
    /\ balance_of(last.pre, LastCtx, LastSender) = 100
    /\ LastAmount = 150
    /\ last.result.tag = "Err"

\* C4: withdraw_near(amount) with amount at most the sender's balance B
\* succeeds and leaves the sender's balance at B - amount (0 when amount = B).
C4_WithdrawDebits ==
    (Called("withdraw_near") /\ IsAmount(last.args)
        /\ LastAmount <= balance_of(last.pre, LastCtx, LastSender))
    => /\ last.result = Ok(<<>>)
       /\ balance_of(trie, LastCtx, LastSender)
            = balance_of(last.pre, LastCtx, LastSender) - LastAmount

\* the boundary: the whole positive balance is withdrawn
C4_Witness ==
    /\ Called("withdraw_near")
    /\ IsAmount(last.args)
    /\ balance_of(last.pre, LastCtx, LastSender) = 100
    /\ LastAmount = 100
    /\ balance_of(trie, LastCtx, LastSender) = 0
    /\ last.result.tag = "Ok"

\* C5: the pair run_evm returns carries the operation's result: the encoded
\* value as the outcome on success, the typed error on failure.
C5_ResultReturned ==
    (InCall /\ last.returned)
    => /\ last.result.tag = "Ok"
            => (last.outcome.some /\ last.outcome.data = last.result.val
                /\ ~last.error.some)
       /\ last.result.tag = "Err"
            => (last.error.some /\ last.error.kind = last.result.err)

\* C6: a method name that is not registered fails with UnknownError and
\* leaves the trie as it was, for every argument buffer and deposit.
C6_UnknownMethodFails ==
    (InCall /\ last.method_name \notin RegisteredMethods)
    => /\ last.error.some
       /\ last.error.kind = "UnknownError"
       /\ trie = last.pre

\* the records of one host account's namespace, read through get_account
CtxOf(id) == EvmContext_new(id, id, 0)

KeysOf(t, id) == {k \in DOMAIN t : k.account_id = id}

\* the namespace of id holds one record, balance n and nonce 0 at address
HoldsOnly(t, id, address, n) ==
    /\ KeysOf(t, id) = {ContractData(id, address)}
    /\ get_account(t, CtxOf(id), address) = EvmAccount(n, 0)

AliceCalled(method_name, args) ==
    Called(method_name) /\ last.account_id = "alice" /\ last.args = args

\* the opening of the scenario: from an empty namespace of "alice", deposit_near
\* of 100 to the zero address leaves 100 there, get_balance returns 100, and
\* withdraw_near of 150 fails with InsufficientFunds and leaves the 100
ScenarioOpening ==
    /\ (AliceCalled("deposit_near", ZeroAddress) /\ last.attached_deposit = 100
            /\ KeysOf(last.pre, "alice") = {})
       => /\ last.result = Ok(u256_to_vec(100))
          /\ HoldsOnly(trie, "alice", ZeroAddress, 100)
    /\ (AliceCalled("get_balance", ZeroAddress)
            /\ HoldsOnly(last.pre, "alice", ZeroAddress, 100))
       => last.result = Ok(u256_to_vec(100))
    /\ (AliceCalled("withdraw_near", ToLittleEndian(150, BALANCE_LEN))
            /\ HoldsOnly(last.pre, "alice", ZeroAddress, 100))
       => /\ last.result = Err("InsufficientFunds")
          /\ HoldsOnly(trie, "alice", ZeroAddress, 100)

\* C7 as stated: after the opening, withdraw_near of 60 succeeds and the
\* balance of the zero address becomes 40.
C7_ScenarioAsStated ==
    /\ ScenarioOpening
    /\ (AliceCalled("withdraw_near", ToLittleEndian(60, BALANCE_LEN))
            /\ HoldsOnly(last.pre, "alice", ZeroAddress, 100))
       => /\ last.result = Ok(<<>>)
          /\ balance_of(trie, LastCtx, ZeroAddress) = 40

\* C7 amended: after the opening, withdraw_near of 60 by a caller whose sender
\* address is not the zero address fails with InsufficientFunds and the zero
\* address keeps its 100; the withdraw succeeds and leaves 40 when the 100 had
\* been deposited to the caller's sender address.
C7_ScenarioAmended ==
    /\ ScenarioOpening
    /\ (AliceCalled("withdraw_near", ToLittleEndian(60, BALANCE_LEN))
            /\ HoldsOnly(last.pre, "alice", ZeroAddress, 100)
            /\ LastSender # ZeroAddress)
       => /\ last.result = Err("InsufficientFunds")
          /\ HoldsOnly(trie, "alice", ZeroAddress, 100)
    /\ (AliceCalled("withdraw_near", ToLittleEndian(60, BALANCE_LEN))
            /\ HoldsOnly(last.pre, "alice", LastSender, 100))
       => /\ last.result = Ok(<<>>)
          /\ HoldsOnly(trie, "alice", LastSender, 40)

\* the withdraw of 60 made right after the deposit of 100 to the zero address
C7_Witness ==
    /\ AliceCalled("withdraw_near", ToLittleEndian(60, BALANCE_LEN))
    /\ HoldsOnly(last.pre, "alice", ZeroAddress, 100)
    /\ last.result.tag = "Err"
    /\ balance_of(trie, LastCtx, ZeroAddress) = 100

\* C8: a call executed under host account id A changes no account record, and
\* no key, of the namespace of any other host account id B.
C8_NamespacesIsolated ==
    InCall =>
        \A id \in AccountIds \ {last.account_id} :
            /\ \A address \in Addresses :
                 get_account(trie, CtxOf(id), address)
                    = get_account(last.pre, CtxOf(id), address)
            /\ KeysOf(trie, id) = KeysOf(last.pre, id)
            /\ \A k \in KeysOf(trie, id) : trie[k] = last.pre[k]

\* a call that changed the record of an address which another namespace
\* also holds a record for
C8_Witness ==
    /\ InCall
    /\ \E id \in AccountIds \ {last.account_id}, address \in Addresses :
         /\ ContractData(id, address) \in DOMAIN last.pre
         /\ get_account(trie, LastCtx, address) # get_account(last.pre, LastCtx, address)
         /\ get_account(trie, CtxOf(id), address).balance > 0

\* C9: get_account after set_account on the same key returns the record that
\* was set, in balance and nonce; the latest set_account is the one returned.
C9_RoundTrip ==
    /\ probe.op = "set_account"
       => get_account(trie, CtxOf(probe.set_id), probe.set_address) = probe.set_record
    /\ (probe.op = "get_account" /\ probe.get_id = probe.set_id
            /\ probe.get_address = probe.set_address)
       => /\ probe.got.balance = probe.set_record.balance
          /\ probe.got.nonce = probe.set_record.nonce

\* a get_account that returned a record which had replaced an earlier one
C9_Witness ==
    /\ probe.op = "get_account"
    /\ probe.get_id = probe.set_id
    /\ probe.get_address = probe.set_address
    /\ probe.overwrote
    /\ probe.got = EvmAccount(256, 1)

\* C10: for an address with no stored record, get_balance returns zero and
\* get_code returns the empty byte sequence; both return.
C10_AbsentReadsDefault ==
    /\ (Called("get_balance") /\ IsAddress(last.args)
            /\ ContractData(last.account_id, last.args) \notin DOMAIN last.pre)
       => last.result = Ok(u256_to_vec(0))
    /\ (Called("get_code") /\ IsAddress(last.args)
            /\ ContractData(last.account_id, last.args) \notin DOMAIN last.pre)
       => last.result = Ok(<<>>)

\* C11: get_account always returns a record: the zero-valued default when
\* the key is absent, when the trie read fails and when the stored bytes do
\* not deserialize, and the stored record otherwise.
C11_GetAccountNeverFails ==
    probe.op = "read_account"
    => /\ probe.got \in [balance : Nat, nonce : Nat]
       /\ (~probe.read.ok \/ ~probe.read.some
              \/ Len(probe.read.value) # 2 * U256_LEN)
          => probe.got = DefaultAccount
       /\ (probe.read.ok /\ probe.read.some
              /\ Len(probe.read.value) = 2 * U256_LEN)
          => try_to_vec(probe.got) = probe.read.value

\* a get_account over stored bytes that are no account record
C11_Witness ==
    /\ probe.op = "read_account"
    /\ probe.read.ok
    /\ probe.read.some
    /\ probe.read.value = <<7>>
    /\ probe.got = DefaultAccount

\* a get_account whose trie read failed although a record is stored
C11_WitnessReadError ==
    /\ probe.op = "read_account"
    /\ ~probe.read.ok
    /\ ContractData(probe.get_id, probe.get_address) \in DOMAIN trie
    /\ probe.got = DefaultAccount

\* C12: get_storage_at with an argument buffer whose length is not 52 returns
\* ArgumentParseError, reaches no storage read (the call returns, which a read
\* through the storage stub would not) and leaves the trie as it was.
C12_StorageArgsRejected ==
    (Called("get_storage_at") /\ Len(last.args) # STORAGE_ARGS_LEN)
    => /\ last.result = Err("ArgumentParseError")
       /\ last.returned
       /\ trie = last.pre

\* a 53-byte buffer rejected over a trie that holds records
C12_Witness ==
    /\ Called("get_storage_at")
    /\ Len(last.args) = STORAGE_ARGS_LEN + 1
    /\ last.result.tag = "Err"
    /\ last.pre # EmptyTrie

\* C13: call_function with an argument buffer shorter than 20 bytes reports a
\* typed argument parse failure to its caller, without invoking the
\* interpreter and without changing the trie.
C13_ShortBufferRejected ==
    (Called("call_function") /\ Len(last.args) < ADDRESS_LEN)
    => /\ last.result = Err("ArgumentParseError")
       /\ last.returned
       /\ last.interp = NoInterp
       /\ trie = last.pre

\* the parent's trie with a child's writes merged into it
Merged(base, writes) ==
    [k \in DOMAIN base \cup DOMAIN writes |->
        IF k \in DOMAIN writes THEN writes[k] ELSE base[k]]

\* C14: a child frame's writes are not in the parent's trie while the frame
\* runs; commit_changes merges them into it; a failed child's frame is
\* discarded and the parent's trie is as it was when the frame began.
C14_FramesIsolated ==
    /\ frame.status = "open" => trie = frame.base
    /\ frame.status = "discarded" => trie = frame.base
    /\ frame.status \notin {"none", "open", "discarded"}
       => /\ frame.status = "committed"
          /\ trie = Merged(frame.base, frame.writes)

\* the record stored under key k of trie t, as get_account reads it
RecordAt(t, k) == get_account_of(TrieGet(t, k))

\* every key of the trie before or after the latest call
LastKeys == DOMAIN trie \cup DOMAIN last.pre

BalanceMethods ==
    {"deposit_near", "withdraw_near", "get_balance", "get_code", "get_storage_at"}

\* C16: over every dispatched call no record's nonce decreases, an address
\* without a record has nonce zero, and deposit_near, withdraw_near,
\* get_balance, get_code and get_storage_at leave every nonce as it was.
C16_NonceMonotone ==
    /\ \A id \in AccountIds, address \in Addresses :
          ContractData(id, address) \notin DOMAIN trie
          => get_account(trie, CtxOf(id), address).nonce = 0
    /\ InCall
       => \A k \in LastKeys :
             /\ RecordAt(trie, k).nonce >= RecordAt(last.pre, k).nonce
             /\ last.method_name \in BalanceMethods
                => RecordAt(trie, k).nonce = RecordAt(last.pre, k).nonce

\* a deposit onto an address whose record has nonce 1: the balance changes
\* and the nonce does not
C16_Witness ==
    /\ Called("deposit_near")
    /\ last.result.tag = "Ok"
    /\ IsAddress(last.args)
    /\ RecordAt(last.pre, ContractData(last.account_id, last.args)).nonce = 1
    /\ RecordAt(trie, ContractData(last.account_id, last.args)).nonce = 1
    /\ RecordAt(trie, ContractData(last.account_id, last.args)).balance
         = last.attached_deposit

RECURSIVE SumBalances(_, _)
\* the sum of the balances of the records stored under the keys ks of trie t
SumBalances(t, ks) ==
    IF ks = {} THEN 0
    ELSE LET k == CHOOSE x \in ks : TRUE
         IN  RecordAt(t, k).balance + SumBalances(t, ks \ {k})

\* C17: in every host-account namespace the balances add up to the attached
\* deposits of the successful deposit_near calls minus the amounts of the
\* successful withdraw_near calls, and no balance is negative.
C17_BalanceConserved ==
    \A id \in AccountIds :
        /\ ledger.withdrawn[id] <= ledger.deposited[id]
        /\ SumBalances(trie, KeysOf(trie, id))
             = ledger.deposited[id] - ledger.withdrawn[id]
        /\ \A k \in KeysOf(trie, id) : RecordAt(trie, k).balance >= 0

\* a deposit of 100 and a withdrawal of 60 in one namespace leave 40
C17_Witness ==
    \E id \in AccountIds :
        /\ ledger.deposited[id] = 100
        /\ ledger.withdrawn[id] = 60
        /\ SumBalances(trie, KeysOf(trie, id)) = 40

\* C18: a successful withdraw_near changes no record but the one of the
\* address derived from the caller id, which it debits by the amount; a
\* successful deposit_near changes no record but the one of the address in
\* its arguments.
C18_OnlyNamedAddressChanges ==
    /\ (Called("withdraw_near") /\ last.result.tag = "Ok")
       => /\ \A k \in LastKeys :
                k # ContractData(last.account_id, LastSender)
                => TrieGet(trie, k) = TrieGet(last.pre, k)
          /\ balance_of(trie, LastCtx, LastSender)
               = balance_of(last.pre, LastCtx, LastSender) - LastAmount
    /\ (Called("deposit_near") /\ last.result.tag = "Ok")
       => \A k \in LastKeys :
             k # ContractData(last.account_id, last.args)
             => TrieGet(trie, k) = TrieGet(last.pre, k)

\* a caller other than the host account withdraws a positive amount
C18_Witness ==
    /\ Called("withdraw_near")
    /\ last.result.tag = "Ok"
    /\ last.predecessor_id # last.account_id
    /\ LastAmount > 0
    /\ trie # last.pre

\* C19: get_balance, get_code and get_storage_at leave the trie as it was,
\* for every argument buffer and however the call ends.
C19_ReadsLeaveTrie ==
    (InCall /\ last.method_name \in {"get_balance", "get_code", "get_storage_at"})
    => trie = last.pre

\* get_balance returns the balance of an address that has no record, over a
\* trie that has other records
C19_Witness ==
    /\ Called("get_balance")
    /\ last.result.tag = "Ok"
    /\ last.pre # EmptyTrie
    /\ ContractData(last.account_id, last.args) \notin DOMAIN last.pre
    /\ trie = last.pre

\* C20: call_function gives the interpreter the caller's derived address as
\* sender and origin, depth 0, the first 20 bytes as target, the rest as
\* input, and no value for a deposit of 0, the deposit otherwise; deploy_code
\* gives it depth 0, the attached deposit as value and the sender-and-nonce
\* scheme.
C20_InterpreterArguments ==
    /\ (Called("call_function") /\ Len(last.args) >= ADDRESS_LEN)
       => /\ last.interp.op = "call"
          /\ last.interp.sender = LastSender
          /\ last.interp.origin = LastSender
          /\ last.interp.depth = 0
          /\ last.interp.target = [i \in 1..ADDRESS_LEN |-> last.args[i]]
          /\ last.interp.target \o last.interp.input = last.args
          /\ last.attached_deposit = 0 => last.interp.value = NoValue
          /\ last.attached_deposit # 0
             => last.interp.value = SomeValue(last.attached_deposit)
    /\ Called("deploy_code")
       => /\ last.interp.op = "deploy_code"
          /\ last.interp.sender = LastSender
          /\ last.interp.depth = 0
          /\ last.interp.value = SomeValue(last.attached_deposit)
          /\ last.interp.scheme = "FromSenderAndNonce"
          /\ last.interp.input = last.args

\* a message call without deposit to alice's address with two bytes of input
C20_Witness ==
    /\ Called("call_function")
    /\ last.attached_deposit = 0
    /\ last.interp.value = NoValue
    /\ last.interp.target = near_account_id_to_evm_address("alice")
    /\ last.interp.input = <<7, 9>>

====
